---- MODULE Spec2Model ----
(***************************************************************************)
(* Model of gemini3_2.py: the CSV loader (strict strategy and line-based   *)
(* fallback), build_graph, calculate_statistics and the module-level       *)
(* script flow (load -> statistics -> filters -> graph -> render).         *)
(*                                                                         *)
(* A Python string is a sequence of one-character strings, so that strip,  *)
(* split and join are computed rather than assumed.                        *)
(***************************************************************************)
EXTENDS Integers, Sequences, FiniteSets, TLC

VARIABLES
    pc,               \* position of the script: start, loaded, filters, rendered, no_match, stopped
    file,             \* the CSV input handed to load_methodologies_from_csv
    KNOWLEDGE_BASE,   \* list of entries returned by the loader
    messages,         \* st.warning / st.error / row diagnostics, in emission order
    calls,            \* functions executed so far in this run
    stats,            \* result of calculate_statistics
    filter_origin,    \* filter_origin_val (None when "All")
    filter_method,    \* filter_method_val (None when "All")
    min_connections,  \* slider value
    graph             \* result of build_graph

vars == <<pc, file, KNOWLEDGE_BASE, messages, calls, stats,
          filter_origin, filter_method, min_connections, graph>>

-----------------------------------------------------------------------------
(* Bounds of the model *)

MaxRows == 2
MaxRecords == 2
MaxMinConnections == 3
MaxAdopters == 10

(* Program constants *)

PreviewLimit == 8
TopN == 5
SliderMax == 10
OriginNodeSize == 25
AdopterNodeSize == 20
MethodNodeSize == 20

-----------------------------------------------------------------------------
(* Values *)

None == <<"None">>
NaN == <<"NaN">>

A == <<"a">>
B == <<"b">>
C == <<"c">>

SeqsUpTo(S, n) == UNION {[1..k -> S] : k \in 0..n}

Range(s) == {s[i] : i \in DOMAIN s}

Min2(x, y) == IF x <= y THEN x ELSE y

-----------------------------------------------------------------------------
(* Python string operations *)

IsSpace(ch) == ch = " "

RECURSIVE lstrip(_)
lstrip(s) ==
    IF s # <<>> /\ IsSpace(Head(s)) THEN lstrip(Tail(s)) ELSE s

RECURSIVE rstrip(_)
rstrip(s) ==
    IF s # <<>> /\ IsSpace(s[Len(s)]) THEN rstrip(SubSeq(s, 1, Len(s) - 1)) ELSE s

strip(s) == rstrip(lstrip(s))

\* s.split(','): always at least one piece
RECURSIVE split(_)
split(s) ==
    IF \A i \in DOMAIN s : s[i] # ","
    THEN <<s>>
    ELSE LET i == CHOOSE k \in DOMAIN s :
                      s[k] = "," /\ \A j \in 1..(k - 1) : s[j] # ","
         IN <<SubSeq(s, 1, i - 1)>> \o split(SubSeq(s, i + 1, Len(s)))

\* ', '.join(fields)
RECURSIVE join(_)
join(fields) ==
    IF fields = <<>> THEN <<>>
    ELSE IF Len(fields) = 1 THEN fields[1]
    ELSE fields[1] \o <<",", " ">> \o join(Tail(fields))

\* str.lower() on the column names the model uses
lower(col) ==
    CASE col \in {"Method", "method", "METHOD"} -> "method"
      [] col \in {"Domain of Origin", "DOMAIN OF ORIGIN"} -> "domain of origin"
      [] col \in {"Primary Application Domains", "primary application domains"}
            -> "primary application domains"
      [] OTHER -> col

\* [field.strip() for field in domains.split(',') if field.strip()]
RECURSIVE StripNonEmpty(_)
StripNonEmpty(pieces) ==
    IF pieces = <<>> THEN <<>>
    ELSE (IF strip(Head(pieces)) # <<>> THEN <<strip(Head(pieces))>> ELSE <<>>)
         \o StripNonEmpty(Tail(pieces))

ParseDomains(domains) == StripNonEmpty(split(domains))

\* f"Originated in {origin}. Applied in: {len(adopted_by)} domains"
Description(origin, adopted_by) == [origin |-> origin, count |-> Len(adopted_by)]

-----------------------------------------------------------------------------
(* load_methodologies_from_csv *)

Msg(kind, line, text) == [kind |-> kind, line |-> line, text |-> text]

required_cols == <<"Method", "Domain of Origin", "Primary Application Domains">>

\* actual_cols = {col.lower(): col ...}: a later column with the same
\* lower-cased name replaces an earlier one; 0 when no column matches
ColumnOf(columns, req_col) ==
    LET hits == {i \in DOMAIN columns : lower(columns[i]) = lower(req_col)}
    IN IF hits = {} THEN 0 ELSE CHOOSE i \in hits : \A j \in hits : j <= i

MissingColumns(columns) ==
    {k \in DOMAIN required_cols : ColumnOf(columns, required_cols[k]) = 0}

isna(cell) == cell = NaN

\* variant: the origin cell is not tested for NaN
StrictEntryNoOriginTest(columns, row) ==
    LET method  == row[ColumnOf(columns, "Method")]
        origin  == row[ColumnOf(columns, "Domain of Origin")]
        domains == row[ColumnOf(columns, "Primary Application Domains")]
    IN IF isna(method) \/ isna(domains)
       THEN <<>>
       ELSE LET adopted_by == ParseDomains(domains)
            IN <<[name        |-> strip(method),
                  origin      |-> strip(origin),
                  description |-> Description(origin, adopted_by),
                  adopted_by  |-> adopted_by]>>

\* Entry produced by the strict strategy for one dataframe row (<<>> if skipped)
StrictEntry(columns, row) ==
    LET method  == row[ColumnOf(columns, "Method")]
        origin  == row[ColumnOf(columns, "Domain of Origin")]
        domains == row[ColumnOf(columns, "Primary Application Domains")]
    IN IF isna(method) \/ isna(origin) \/ isna(domains)
       THEN <<>>
       ELSE LET adopted_by == ParseDomains(domains)
            IN <<[name        |-> strip(method),
                  origin      |-> strip(origin),
                  description |-> Description(origin, adopted_by),
                  adopted_by  |-> adopted_by]>>

\* for idx, row in df.iterrows(): ... knowledge_base.append(entry)
RECURSIVE StrictTransform(_, _)
StrictTransform(columns, rows) ==
    IF rows = <<>> THEN <<>>
    ELSE StrictEntry(columns, Head(rows)) \o StrictTransform(columns, Tail(rows))

\* Strategy 1 succeeded: column validation, then the row transform
Strategy1(f) ==
    LET missing == MissingColumns(f.columns)
    IN IF missing # {}
       THEN LET k == CHOOSE i \in missing : \A j \in missing : i <= j
            IN [kb |-> <<>>, msgs |-> <<Msg("missing_column", 0, required_cols[k])>>]
       ELSE [kb |-> StrictTransform(f.columns, f.rows), msgs |-> <<>>]

\* Entry produced by the fallback loop for one reader row (<<>> if skipped)
FallbackEntry(row) ==
    IF Len(row) < 3 THEN <<>>
    ELSE LET method  == strip(row[1])
             origin  == strip(row[2])
             domains == IF Len(row) > 3
                        THEN strip(join(SubSeq(row, 3, Len(row))))
                        ELSE strip(row[3])
         IN IF method = <<>> \/ origin = <<>> \/ domains = <<>>
            THEN <<>>
            ELSE LET adopted_by == ParseDomains(domains)
                 IN <<[name        |-> method,
                       origin      |-> origin,
                       description |-> Description(origin, adopted_by),
                       adopted_by  |-> adopted_by]>>

\* for line_num, row in enumerate(reader, start=2): no statement of the loop
\* body can raise on a list of strings, so the per-row handler emits nothing
RECURSIVE FallbackLoop(_)
FallbackLoop(rows) ==
    IF rows = <<>> THEN <<>>
    ELSE FallbackEntry(Head(rows)) \o FallbackLoop(Tail(rows))

\* rows the reader yields to the loop: the first one is consumed as header
\* when the sniffer reports one
DataRows(f) ==
    IF f.has_header
    THEN (IF f.rows = <<>> THEN <<>> ELSE Tail(f.rows))
    ELSE f.rows

\* Strategy 2 raises at file level: open/sniff/next(reader) fail, or the
\* reader raises after having yielded fail_after rows to the loop
Strategy2Fails(f) ==
    \/ f.fail_after >= 0
    \/ f.has_header /\ f.rows = <<>>

\* knowledge_base as accumulated when strategy 2 stops (normally or by raising)
Strategy2Accumulated(f) ==
    IF f.has_header /\ f.rows = <<>> THEN <<>>
    ELSE IF f.fail_after >= 0
         THEN FallbackLoop(SubSeq(DataRows(f), 1, f.fail_after))
         ELSE FallbackLoop(DataRows(f))

\* variant: the handler returns what the loop had accumulated
Strategy2KeepsPartial(f) ==
    [kb   |-> Strategy2Accumulated(f),
     msgs |-> IF Strategy2Fails(f)
              THEN <<Msg("strategy2_failed", 0, "")>>
              ELSE <<>>]

Strategy2(f) ==
    IF Strategy2Fails(f)
    THEN [kb |-> <<>>, msgs |-> <<Msg("strategy2_failed", 0, "")>>]
    ELSE [kb |-> Strategy2Accumulated(f), msgs |-> <<>>]

load_methodologies_from_csv(f) ==
    IF f.s1_ok
    THEN Strategy1(f)
    ELSE LET r == Strategy2(f)
         IN [kb |-> r.kb, msgs |-> <<Msg("strategy1_failed", 0, "")>> \o r.msgs]

-----------------------------------------------------------------------------
(* build_graph *)

EmptyGraph == [nodes |-> <<>>, edges |-> <<>>]

HasNode(G, n) == \E i \in DOMAIN G.nodes : G.nodes[i].id = n

NodeOf(G, n) == G.nodes[CHOOSE i \in DOMAIN G.nodes : G.nodes[i].id = n]

\* G.add_node(n, **attrs): a new key is appended, an existing key has its
\* attributes replaced in place
add_node(G, node) ==
    IF HasNode(G, node.id)
    THEN [G EXCEPT !.nodes =
            [i \in DOMAIN G.nodes |->
                IF G.nodes[i].id = node.id THEN node ELSE G.nodes[i]]]
    ELSE [G EXCEPT !.nodes = Append(G.nodes, node)]

\* G.add_edge(u, v, **attrs) on a DiGraph: one edge per ordered pair
add_edge(G, edge) ==
    IF \E i \in DOMAIN G.edges :
          G.edges[i].from = edge.from /\ G.edges[i].to = edge.to
    THEN [G EXCEPT !.edges =
            [i \in DOMAIN G.edges |->
                IF G.edges[i].from = edge.from /\ G.edges[i].to = edge.to
                THEN edge ELSE G.edges[i]]]
    ELSE [G EXCEPT !.edges = Append(G.edges, edge)]

\* `if filter_origin and ...`: None and the empty string are both falsy
Truthy(x) == x # None /\ x # <<>>

\* the three `continue` tests of build_graph, negated
PassesFilters(entry, fo, fm, mc) ==
    /\ ~(Truthy(fo) /\ entry.origin # fo)
    /\ ~(Truthy(fm) /\ entry.name # fm)
    /\ ~(Len(entry.adopted_by) < mc)

Title(kind, subject, origin, count, lines) ==
    [kind |-> kind, subject |-> subject, origin |-> origin,
     count |-> count, lines |-> lines]

\* f"ORIGIN DOMAIN\n{origin}"
OriginTooltip(origin) == Title("ORIGIN DOMAIN", origin, <<>>, 0, <<>>)

\* f"<b>Field: {adopter}</b>"
AdopterTooltip(adopter) == Title("Field", adopter, <<>>, 0, <<>>)

ItemLine(a) == [kind |-> "item", text |-> a, n |-> 0]
MoreLine(k) == [kind |-> "more", text |-> <<>>, n |-> k]

\* variant: the marker is appended from 8 entries on (>= instead of >)
AdoptersTextOffByOne(adopters) ==
    LET adopters_preview == SubSeq(adopters, 1, Min2(PreviewLimit, Len(adopters)))
    IN [i \in DOMAIN adopters_preview |-> ItemLine(adopters_preview[i])]
       \o (IF Len(adopters) >= PreviewLimit
           THEN <<MoreLine(Len(adopters) - PreviewLimit)>>
           ELSE <<>>)

\* adopters[:8], one bullet per entry, then "... and {len - 8} more domains"
AdoptersText(adopters) ==
    LET adopters_preview == SubSeq(adopters, 1, Min2(PreviewLimit, Len(adopters)))
    IN [i \in DOMAIN adopters_preview |-> ItemLine(adopters_preview[i])]
       \o (IF Len(adopters) > PreviewLimit
           THEN <<MoreLine(Len(adopters) - PreviewLimit)>>
           ELSE <<>>)

MethodTooltip(method, origin, adopters) ==
    Title("METHOD", method, origin, Len(adopters), AdoptersText(adopters))

OriginNode(origin) ==
    [id |-> origin, group |-> "Field", title |-> OriginTooltip(origin),
     shape |-> "dot", size |-> OriginNodeSize, color |-> "#FF6B6B"]

MethodNode(method, origin, adopters) ==
    [id |-> method, group |-> "Method",
     title |-> MethodTooltip(method, origin, adopters),
     shape |-> "square", size |-> MethodNodeSize, color |-> "#4ECDC4"]

AdopterNode(adopter) ==
    [id |-> adopter, group |-> "Field", title |-> AdopterTooltip(adopter),
     shape |-> "dot", size |-> AdopterNodeSize, color |-> "#FF6B6B"]

OriginEdge(origin, method) ==
    [from |-> origin, to |-> method, title |-> "Originated In",
     color |-> "#555555", width |-> 2, dashes |-> FALSE]

AdopterEdge(method, adopter) ==
    [from |-> method, to |-> adopter, title |-> "Adopted By",
     color |-> "#aaaaaa", width |-> 1, dashes |-> TRUE]

\* variant: the origin node is written without the membership test
AddOriginAlways(G, origin) == add_node(G, OriginNode(origin))

\* 1. if origin not in G: G.add_node(origin, group='Field', ...)
AddOrigin(G, origin) ==
    IF ~HasNode(G, origin) THEN add_node(G, OriginNode(origin)) ELSE G

\* 2. G.add_node(method, group='Method', ...), unconditionally
AddMethod(G, method, origin, adopters) ==
    add_node(G, MethodNode(method, origin, adopters))

\* variant: the adopter node is written without the membership test
AddAdopterAlways(G, method, adopter) ==
    add_edge(add_node(G, AdopterNode(adopter)), AdopterEdge(method, adopter))

\* 4. one adopter: if adopter not in G: add_node; then add_edge
AddAdopter(G, method, adopter) ==
    add_edge(IF ~HasNode(G, adopter) THEN add_node(G, AdopterNode(adopter)) ELSE G,
             AdopterEdge(method, adopter))

RECURSIVE AddAdopters(_, _, _)
AddAdopters(G, method, adopters) ==
    IF adopters = <<>> THEN G
    ELSE AddAdopters(AddAdopter(G, method, Head(adopters)), method, Tail(adopters))

\* variant: the origin node is added before the filters are applied
ProcessEntryOriginFirst(G, entry, fo, fm, mc) ==
    LET G1 == AddOrigin(G, entry.origin)
    IN IF ~PassesFilters(entry, fo, fm, mc) THEN G1
       ELSE LET G2 == AddMethod(G1, entry.name, entry.origin, entry.adopted_by)
                G3 == add_edge(G2, OriginEdge(entry.origin, entry.name))
            IN AddAdopters(G3, entry.name, entry.adopted_by)

\* body of `for entry in data`
ProcessEntry(G, entry, fo, fm, mc) ==
    IF ~PassesFilters(entry, fo, fm, mc) THEN G
    ELSE LET G1 == AddOrigin(G, entry.origin)
             G2 == AddMethod(G1, entry.name, entry.origin, entry.adopted_by)
             G3 == add_edge(G2, OriginEdge(entry.origin, entry.name))
         IN AddAdopters(G3, entry.name, entry.adopted_by)

RECURSIVE BuildFrom(_, _, _, _, _)
BuildFrom(G, data, fo, fm, mc) ==
    IF data = <<>> THEN G
    ELSE BuildFrom(ProcessEntry(G, Head(data), fo, fm, mc), Tail(data), fo, fm, mc)

build_graph(data, fo, fm, mc) == BuildFrom(EmptyGraph, data, fo, fm, mc)

number_of_nodes(G) == Len(G.nodes)

MethodNodes(G) == {i \in DOMAIN G.nodes : G.nodes[i].group = "Method"}

-----------------------------------------------------------------------------
(* calculate_statistics *)

Count(list, x) == Cardinality({i \in DOMAIN list : list[i] = x})

\* pd.Series(list).value_counts(): one (key, count) pair per distinct value,
\* by decreasing count; the order among equal counts is left to the sort
value_counts(list) ==
    LET keys == Range(list)
        n    == Cardinality(keys)
    IN {[i \in 1..n |-> [key |-> p[i], count |-> Count(list, p[i])]] :
          p \in {q \in [1..n -> keys] :
                   /\ \A i, j \in 1..n : i # j => q[i] # q[j]
                   /\ \A i, j \in 1..n :
                         i < j => Count(list, q[i]) >= Count(list, q[j])}}

head(series, k) == SubSeq(series, 1, Min2(k, Len(series)))

\* variant: each entry contributes its distinct adopters once
RECURSIVE Dedup(_)
Dedup(list) ==
    IF list = <<>> THEN <<>>
    ELSE LET rest == Dedup(SubSeq(list, 1, Len(list) - 1))
         IN IF list[Len(list)] \in Range(rest) THEN rest
            ELSE Append(rest, list[Len(list)])

RECURSIVE AllAdoptersDistinct(_)
AllAdoptersDistinct(data) ==
    IF data = <<>> THEN <<>>
    ELSE Dedup(Head(data).adopted_by) \o AllAdoptersDistinct(Tail(data))

RECURSIVE AllAdopters(_)
AllAdopters(data) ==
    IF data = <<>> THEN <<>>
    ELSE Head(data).adopted_by \o AllAdopters(Tail(data))

Origins(data) == [i \in DOMAIN data |-> data[i].origin]

EmptyStats ==
    [total_methods |-> 0, total_origins |-> 0, total_adopting_fields |-> 0,
     top_origins |-> <<>>, top_adopters |-> <<>>]

\* the set of results calculate_statistics may return for data
calculate_statistics(data) ==
    IF data = <<>> THEN {EmptyStats}
    ELSE {[total_methods         |-> Len(data),
           total_origins         |-> Cardinality(Range(Origins(data))),
           total_adopting_fields |-> Cardinality(Range(AllAdopters(data))),
           top_origins           |-> head(oc, TopN),
           top_adopters          |-> head(ac, TopN)] :
             oc \in value_counts(Origins(data)),
             ac \in value_counts(AllAdopters(data))}

-----------------------------------------------------------------------------
(* Inputs *)

WS == <<" ">>
D_ab == <<"a", ",", " ", "b">>
D_commas == <<",", " ", ",">>

\* dataframe rows as (method, origin, domains): two complete rows and rows
\* with one cell missing, blank or padded
StrictTriples ==
    {<<A, B, D_ab>>, <<B, A, C>>,
     <<NaN, B, D_ab>>, <<A, NaN, D_ab>>, <<A, B, NaN>>,
     <<WS, B, D_ab>>, <<A, WS, D_ab>>, <<A, B, D_commas>>,
     <<<<" ", "a", " ">>, B, D_ab>>}

Headers ==
    {<<"Method", "Domain of Origin", "Primary Application Domains">>,
     <<"METHOD", "DOMAIN OF ORIGIN", "primary application domains">>,
     <<"Domain of Origin", "Primary Application Domains", "Method">>,
     <<"Method", "Domain of Origin", "Notes">>}

\* the dataframe row holding triple t under the given column order
PhysRow(columns, t) ==
    [i \in DOMAIN columns |->
        CASE lower(columns[i]) = "method" -> t[1]
          [] lower(columns[i]) = "domain of origin" -> t[2]
          [] OTHER -> t[3]]

\* rows as csv.reader yields them: a header line, complete rows, a row of
\* five fields, a row of two, and rows with one empty or blank field
ReaderRows ==
    {<<<<"M">>, <<"O">>, <<"D">>>>,
     <<A, B, D_ab>>, <<B, A, C>>,
     <<A, B, A, B, C>>, <<A, B>>,
     <<<<>>, B, D_ab>>, <<A, <<>>, D_ab>>, <<A, B, <<>>>>,
     <<A, WS, D_ab>>, <<A, B, D_commas>>}

NoFile ==
    [source |-> "absent", s1_ok |-> FALSE, columns |-> <<>>, rows |-> <<>>,
     has_header |-> FALSE, fail_after |-> -1]

StrictFiles ==
    {[source |-> src, s1_ok |-> TRUE, columns |-> h,
      rows |-> [i \in DOMAIN ts |-> PhysRow(h, ts[i])],
      has_header |-> FALSE, fail_after |-> -1] :
        src \in {"uploaded", "default"}, h \in Headers,
        ts \in SeqsUpTo(StrictTriples, MaxRows)}

\* an uploaded file object cannot be passed to open(): strategy 2 raises at once
FallbackFiles ==
    {f \in [source : {"uploaded", "default"}, s1_ok : {FALSE}, columns : {<<>>},
            rows : SeqsUpTo(ReaderRows, MaxRows), has_header : BOOLEAN,
            fail_after : -1..(MaxRows - 1)] :
        /\ f.fail_after <= 0 \/ f.fail_after < Len(DataRows(f))
        /\ f.source = "uploaded" => f.fail_after = 0}

Files == {NoFile} \cup StrictFiles \cup FallbackFiles

\* entries for the graph and statistics checks: method names and domain
\* names overlap, and one adopter list repeats a field
GraphNames == {A, B}
GraphOrigins == {A, C}
AdopterLists == {<<A>>, <<C>>, <<B, C>>, <<C, C>>}

GraphEntries ==
    {[name |-> n, origin |-> o, description |-> Description(o, ad),
      adopted_by |-> ad] :
        n \in GraphNames, o \in GraphOrigins, ad \in AdopterLists}

\* one entry with an adopter list of every length up to MaxAdopters
LongEntries ==
    {[name |-> A, origin |-> B, description |-> Description(B, ad),
      adopted_by |-> ad] : ad \in SeqsUpTo({A, C}, MaxAdopters)}

-----------------------------------------------------------------------------
(* The script *)

SliderValues == 0..Min2(SliderMax, MaxMinConnections)

\* "All" maps to None; every other option is a value of the knowledge base
OriginOptions(kb) == {None} \cup {kb[i].origin : i \in DOMAIN kb}
MethodOptions(kb) == {None} \cup {kb[i].name : i \in DOMAIN kb}

Init ==
    /\ pc = "start"
    /\ file \in Files
    /\ KNOWLEDGE_BASE = <<>>
    /\ messages = <<>>
    /\ calls = {}
    /\ stats = EmptyStats
    /\ filter_origin = None
    /\ filter_method = None
    /\ min_connections = 0
    /\ graph = EmptyGraph

\* lines 361-372
LoadData ==
    /\ pc = "start"
    /\ IF file.source = "absent"
       THEN /\ messages' = Append(messages, Msg("please_upload", 0, ""))
            /\ pc' = "stopped"
            /\ UNCHANGED <<KNOWLEDGE_BASE, calls>>
       ELSE LET r == load_methodologies_from_csv(file)
            IN /\ KNOWLEDGE_BASE' = r.kb
               /\ messages' = messages \o r.msgs
               /\ calls' = calls \cup {"load_methodologies_from_csv"}
               /\ pc' = "loaded"
    /\ UNCHANGED <<file, stats, filter_origin, filter_method, min_connections, graph>>

\* lines 374-379
CalcStats ==
    /\ pc = "loaded"
    /\ IF KNOWLEDGE_BASE # <<>>
       THEN /\ stats' \in calculate_statistics(KNOWLEDGE_BASE)
            /\ calls' = calls \cup {"calculate_statistics"}
            /\ pc' = "filters"
            /\ UNCHANGED messages
       ELSE /\ messages' = Append(messages, Msg("no_data", 0, ""))
            /\ pc' = "stopped"
            /\ UNCHANGED <<stats, calls>>
    /\ UNCHANGED <<file, KNOWLEDGE_BASE, filter_origin, filter_method,
                   min_connections, graph>>

\* lines 396-449: the widgets' values, build_graph, then the warning or render_pyvis
BuildAndRender ==
    /\ pc = "filters"
    /\ \E fo \in OriginOptions(KNOWLEDGE_BASE), fm \in MethodOptions(KNOWLEDGE_BASE),
          mc \in SliderValues :
          LET G == build_graph(KNOWLEDGE_BASE, fo, fm, mc)
          IN /\ filter_origin' = fo
             /\ filter_method' = fm
             /\ min_connections' = mc
             /\ graph' = G
             /\ IF number_of_nodes(G) = 0
                THEN /\ messages' = Append(messages, Msg("no_match", 0, ""))
                     /\ calls' = calls \cup {"build_graph"}
                     /\ pc' = "no_match"
                ELSE /\ calls' = calls \cup {"build_graph", "render_pyvis"}
                     /\ pc' = "rendered"
                     /\ UNCHANGED messages
    /\ UNCHANGED <<file, KNOWLEDGE_BASE, stats>>

Next == LoadData \/ CalcStats \/ BuildAndRender

Spec == Init /\ [][Next]_vars

\* the script from the point where the loader has returned its list
InitLoaded(kbs) ==
    /\ pc = "loaded"
    /\ file = NoFile
    /\ KNOWLEDGE_BASE \in kbs
    /\ messages = <<>>
    /\ calls = {"load_methodologies_from_csv"}
    /\ stats = EmptyStats
    /\ filter_origin = None
    /\ filter_method = None
    /\ min_connections = 0
    /\ graph = EmptyGraph

InitGraph == InitLoaded(SeqsUpTo(GraphEntries, MaxRecords))

InitTooltip == InitLoaded({<<e>> : e \in LongEntries})

NextGraph == CalcStats \/ BuildAndRender

SpecGraph == InitGraph /\ [][NextGraph]_vars

SpecTooltip == InitTooltip /\ [][NextGraph]_vars

-----------------------------------------------------------------------------
(* Properties of the loader and of the load flow (checked under Spec) *)

Loaded == pc # "start" /\ "load_methodologies_from_csv" \in calls

ValidEntry(e) ==
    /\ strip(e.name) # <<>>
    /\ strip(e.origin) # <<>>
    /\ \E i \in DOMAIN e.adopted_by : e.adopted_by[i] # <<>>

\* C1: every entry of the list the loader returns has a non-empty name and
\* origin after trimming and at least one non-empty adopter.  The strict
\* strategy only tests for NaN and the fallback only tests the untrimmed
\* pieces of the domains string, so this fails in both.
C1_EveryEntryValid ==
    Loaded => \A i \in DOMAIN KNOWLEDGE_BASE : ValidEntry(KNOWLEDGE_BASE[i])

\* the rows the row loop of the strategy in use iterates over
LoopRows(f) == IF f.s1_ok THEN f.rows ELSE DataRows(f)

\* f with the rows of the row loop replaced
WithLoopRows(f, rows) ==
    IF f.s1_ok \/ ~f.has_header
    THEN [f EXCEPT !.rows = rows]
    ELSE [f EXCEPT !.rows = <<Head(f.rows)>> \o rows]

\* the load ran its row loop to the end
RowLoopCompleted(f) ==
    /\ f.source # "absent"
    /\ IF f.s1_ok THEN MissingColumns(f.columns) = {} ELSE ~Strategy2Fails(f)

Present(cell) == cell # NaN /\ strip(cell) # <<>>

\* positions (method 1, origin 2, domains 3) whose value the row lacks while
\* the other two are present; a reader row of two fields lacks the third
LackedFields(f, row) ==
    IF f.s1_ok
    THEN LET cell(k) == row[ColumnOf(f.columns, required_cols[k])]
         IN {k \in 1..3 : cell(k) = NaN /\ \A j \in (1..3) \ {k} : Present(cell(j))}
    ELSE IF Len(row) = 2
         THEN {k \in {3} : Present(row[1]) /\ Present(row[2])}
         ELSE IF Len(row) = 3
              THEN {k \in 1..3 : row[k] = <<>> /\ \A j \in (1..3) \ {k} : Present(row[j])}
              ELSE {}

\* the same row with field k populated by value v
Populate(f, row, k, v) ==
    IF f.s1_ok
    THEN [row EXCEPT ![ColumnOf(f.columns, required_cols[k])] = v]
    ELSE IF Len(row) = 2 THEN Append(row, v) ELSE [row EXCEPT ![k] = v]

RemoveAt(seq, j) == SubSeq(seq, 1, j - 1) \o SubSeq(seq, j + 1, Len(seq))

\* loading f yields the list of loading f-with-row-i-populated, minus the
\* one entry of row i, the others in unchanged order
SkipsExactlyRow(f, i, k, v) ==
    LET rows    == LoopRows(f)
        full    == WithLoopRows(f, [rows EXCEPT ![i] = Populate(f, rows[i], k, v)])
        before  == WithLoopRows(f, SubSeq(rows, 1, i - 1))
        kb_full == load_methodologies_from_csv(full).kb
        j       == Len(load_methodologies_from_csv(before).kb) + 1
    IN /\ Len(KNOWLEDGE_BASE) = Len(kb_full) - 1
       /\ KNOWLEDGE_BASE = RemoveAt(kb_full, j)

RowsLackingAField(f) ==
    {i \in DOMAIN LoopRows(f) : LackedFields(f, LoopRows(f)[i]) # {}}

SkipMessages == {k \in DOMAIN messages : messages[k].kind = "skipping_line"}

\* stated of the list as the loader returns it (the script never changes it)
C6_RowSkipped ==
    (pc = "loaded" /\ RowLoopCompleted(file)) =>
        \A i \in RowsLackingAField(file) :
            \A k \in LackedFields(file, LoopRows(file)[i]) :
                \A v \in {B, C} : SkipsExactlyRow(file, i, k, v)

StatsAndGraphCalls == {"calculate_statistics", "build_graph", "render_pyvis"}

\* C8: an empty list from the loader is terminal: the script reports the
\* error and stops, and calculate_statistics, build_graph and render_pyvis
\* are not executed; a fallback that raises returns the empty list whatever
\* it had accumulated.
C8_EmptyIsTerminal ==
    /\ (Loaded /\ KNOWLEDGE_BASE = <<>>) =>
          /\ pc \in {"loaded", "stopped"}
          /\ calls \cap StatsAndGraphCalls = {}
          /\ stats = EmptyStats /\ graph = EmptyGraph
          /\ pc = "stopped" => messages[Len(messages)].kind = "no_data"
    /\ (Loaded /\ ~file.s1_ok /\ Strategy2Fails(file)) => KNOWLEDGE_BASE = <<>>
    /\ (Loaded /\ file.s1_ok /\ MissingColumns(file.columns) # {}) =>
          KNOWLEDGE_BASE = <<>>

\* the fallback raised after its loop had appended an entry, and the run stopped
C8_Witness ==
    /\ pc = "stopped"
    /\ Loaded /\ ~file.s1_ok /\ file.fail_after >= 1
    /\ Strategy2Accumulated(file) # <<>>
    /\ KNOWLEDGE_BASE = <<>>

-----------------------------------------------------------------------------
(* Properties of build_graph (checked under SpecGraph) *)

Built == pc \in {"rendered", "no_match"}

\* the entries build_graph does not skip, in input order
RECURSIVE PassingOf(_, _, _, _)
PassingOf(data, fo, fm, mc) ==
    IF data = <<>> THEN <<>>
    ELSE (IF PassesFilters(Head(data), fo, fm, mc) THEN <<Head(data)>> ELSE <<>>)
         \o PassingOf(Tail(data), fo, fm, mc)

Passing == PassingOf(KNOWLEDGE_BASE, filter_origin, filter_method, min_connections)

PassingNames == {Passing[i].name : i \in DOMAIN Passing}
PassingOrigins == {Passing[i].origin : i \in DOMAIN Passing}
PassingDomains == PassingOrigins \cup UNION {Range(Passing[i].adopted_by) : i \in DOMAIN Passing}

NodesWithId(n) == {i \in DOMAIN graph.nodes : graph.nodes[i].id = n}

\* the roles in which one entry touches node names, in processing order
TouchesOf(e) ==
    <<[id |-> e.origin, role |-> "origin"], [id |-> e.name, role |-> "method"]>>
    \o [i \in DOMAIN e.adopted_by |-> [id |-> e.adopted_by[i], role |-> "adopter"]]

RECURSIVE TouchesOfAll(_)
TouchesOfAll(entries) ==
    IF entries = <<>> THEN <<>>
    ELSE TouchesOf(Head(entries)) \o TouchesOfAll(Tail(entries))

Touches == TouchesOfAll(Passing)

TouchIndexes(n) == {i \in DOMAIN Touches : Touches[i].id = n}
FirstTouch(n) == Touches[CHOOSE i \in TouchIndexes(n) : \A j \in TouchIndexes(n) : i <= j]
LastTouch(n) == Touches[CHOOSE i \in TouchIndexes(n) : \A j \in TouchIndexes(n) : j <= i]

KindOfRole(role) == IF role = "method" THEN "Method" ELSE "Field"

MethodCount(G) == Cardinality(MethodNodes(G))

\* C2: with the origin and method filters fixed, a larger min_connections
\* never yields more Method nodes, also when a name is both a method and a
\* domain.
C2_FilterMonotone ==
    Built =>
        \A m \in SliderValues :
            LET other == build_graph(KNOWLEDGE_BASE, filter_origin, filter_method, m)
            IN /\ m <= min_connections => MethodCount(graph) <= MethodCount(other)
               /\ m >= min_connections => MethodCount(graph) >= MethodCount(other)

\* a graph in which a method name is also a domain name, and which a lower
\* threshold gives strictly more Method nodes
C2_Witness ==
    /\ Built
    /\ PassingNames \cap PassingDomains # {}
    /\ \E m \in SliderValues :
          /\ m < min_connections
          /\ MethodCount(graph) <
                MethodCount(build_graph(KNOWLEDGE_BASE, filter_origin, filter_method, m))

\* C3 as stated: each origin of a passing entry is the id of exactly one
\* node, and that node has kind Field whatever else the string is used for.
C3_OriginIsField ==
    Built =>
        \A o \in PassingOrigins :
            /\ Cardinality(NodesWithId(o)) = 1
            /\ NodeOf(graph, o).group = "Field"

\* C3 amended: each origin of a passing entry is the id of exactly one node,
\* however many entries reference it; the node has kind Field unless the
\* string is also the method name of a passing entry, in which case it has
\* kind Method.
C3_OneNodePerOrigin ==
    Built =>
        \A o \in PassingOrigins :
            /\ Cardinality(NodesWithId(o)) = 1
            /\ NodeOf(graph, o).group = (IF o \in PassingNames THEN "Method" ELSE "Field")

\* two passing entries share an origin that is no method name: one Field node
C3_Witness ==
    /\ Built
    /\ \E i, j \in DOMAIN Passing :
          /\ i < j
          /\ Passing[i].origin = Passing[j].origin
          /\ Passing[i].origin \notin PassingNames
          /\ Cardinality(NodesWithId(Passing[i].origin)) = 1
          /\ NodeOf(graph, Passing[i].origin).group = "Field"

\* C4: no entry passes the filters exactly when build_graph returns the
\* graph without nodes and edges, and the script then warns that nothing
\* matches instead of rendering; when an entry passes the graph has nodes
\* and is rendered.
C4_EmptyIffNothingPasses ==
    Built =>
        IF Passing = <<>>
        THEN /\ graph = EmptyGraph
             /\ pc = "no_match"
             /\ "render_pyvis" \notin calls
             /\ messages[Len(messages)].kind = "no_match"
        ELSE /\ graph.nodes # <<>> /\ graph.edges # <<>>
             /\ pc = "rendered"
             /\ "render_pyvis" \in calls

\* a non-empty knowledge base of which the filters exclude every entry
C4_Witness ==
    /\ pc = "no_match"
    /\ KNOWLEDGE_BASE # <<>>
    /\ Passing = <<>>
    /\ graph = EmptyGraph

\* C9 as stated: the kind of a node is the kind of the role in which its
\* name was processed last, in both orders.
C9_LastWriteWins ==
    Built =>
        \A i \in DOMAIN graph.nodes :
            graph.nodes[i].group = KindOfRole(LastTouch(graph.nodes[i].id).role)

\* C9 amended: a name used as the method name of any passing entry ends as a
\* Method node whatever the order: a node first registered as Field and later
\* processed as a method name becomes Method, while a node registered as
\* Method and later processed as an origin or adopter stays Method.
C9_MethodWins ==
    Built =>
        \A i \in DOMAIN graph.nodes :
            graph.nodes[i].group =
                (IF graph.nodes[i].id \in PassingNames THEN "Method" ELSE "Field")

\* one node registered as Method and processed later as origin or adopter,
\* and one node registered as Field and processed later as method name
C9_Witness ==
    /\ Built
    /\ \E n \in PassingNames :
          /\ FirstTouch(n).role = "method" /\ LastTouch(n).role # "method"
          /\ NodeOf(graph, n).group = "Method"
    /\ \E n \in PassingNames :
          /\ FirstTouch(n).role # "method" /\ LastTouch(n).role = "method"
          /\ NodeOf(graph, n).group = "Method"

FieldNodeFor(touch) ==
    IF touch.role = "origin" THEN OriginNode(touch.id) ELSE AdopterNode(touch.id)

\* C10 as stated: a Field node touched by several passing entries carries
\* the tooltip and size written by the entry processed last.
C10_LastRecordWins ==
    Built =>
        \A i \in DOMAIN graph.nodes :
            graph.nodes[i].group = "Field" =>
                graph.nodes[i] = FieldNodeFor(LastTouch(graph.nodes[i].id))

\* C10 amended: a Field node touched by several passing entries carries the
\* tooltip and size written when it was first registered (by the first
\* processed entry that touched it, origin before adopters); later entries
\* do not rewrite it, and its kind stays Field.
C10_FirstRecordWins ==
    Built =>
        \A i \in DOMAIN graph.nodes :
            graph.nodes[i].group = "Field" =>
                graph.nodes[i] = FieldNodeFor(FirstTouch(graph.nodes[i].id))

\* a Field node registered as adopter by one entry and touched as origin by
\* a later one keeps the adopter's size and tooltip
C10_Witness ==
    /\ Built
    /\ \E i \in DOMAIN graph.nodes :
          LET n == graph.nodes[i]
          IN /\ n.group = "Field"
             /\ FirstTouch(n.id).role = "adopter"
             /\ LastTouch(n.id).role = "origin"
             /\ n.size = AdopterNodeSize
             /\ n.title = AdopterTooltip(n.id)

-----------------------------------------------------------------------------
(* Properties of calculate_statistics (checked under SpecGraph) *)

HasStats == "calculate_statistics" \in calls

RecordsContaining(data, x) ==
    Cardinality({i \in DOMAIN data : x \in Range(data[i].adopted_by)})

RECURSIVE Occurrences(_, _)
Occurrences(data, x) ==
    IF data = <<>> THEN 0
    ELSE Count(Head(data).adopted_by, x) + Occurrences(Tail(data), x)

\* C7 as stated: the count of a field in top_adopters is the number of
\* entries whose adopted_by contains it (a repeat inside one list counts once).
C7_CountsRecords ==
    HasStats =>
        \A i \in DOMAIN stats.top_adopters :
            stats.top_adopters[i].count =
                RecordsContaining(KNOWLEDGE_BASE, stats.top_adopters[i].key)

\* C7 amended: the count of a field in top_adopters is the number of its
\* occurrences in all adopted_by lists together: a field that appears twice
\* in one entry's list contributes 2; the ranking is by that count.
C7_CountsOccurrences ==
    HasStats =>
        /\ \A i \in DOMAIN stats.top_adopters :
              stats.top_adopters[i].count =
                  Occurrences(KNOWLEDGE_BASE, stats.top_adopters[i].key)
        /\ \A i, j \in DOMAIN stats.top_adopters :
              i < j => stats.top_adopters[i].count >= stats.top_adopters[j].count
        /\ Len(stats.top_adopters) =
              Min2(TopN, Cardinality(UNION {Range(KNOWLEDGE_BASE[i].adopted_by) :
                                              i \in DOMAIN KNOWLEDGE_BASE}))

\* a field listed twice by one entry and by no other is reported with count 2
C7_Witness ==
    /\ HasStats
    /\ \E i \in DOMAIN stats.top_adopters :
          /\ stats.top_adopters[i].count = 2
          /\ RecordsContaining(KNOWLEDGE_BASE, stats.top_adopters[i].key) = 1

-----------------------------------------------------------------------------
(* Property of the method tooltip (checked under SpecTooltip) *)

\* C5: for an entry with n adopters the tooltip lists exactly the first
\* min(n, 8) adopters in their order, followed by a marker for n - 8 more if
\* and only if n > 8, and reports the total n.
C5_TooltipTruncation ==
    (Built /\ Passing # <<>>) =>
        LET e     == Passing[1]
            n     == Len(e.adopted_by)
            shown == Min2(n, PreviewLimit)
            title == NodeOf(graph, e.name).title
            lines == title.lines
        IN /\ title.count = n
           /\ Len(lines) = shown + (IF n > PreviewLimit THEN 1 ELSE 0)
           /\ \A i \in 1..shown :
                 lines[i].kind = "item" /\ lines[i].text = e.adopted_by[i]
           /\ n > PreviewLimit =>
                 /\ lines[shown + 1].kind = "more"
                 /\ lines[shown + 1].n = n - PreviewLimit
           /\ \A i \in DOMAIN lines : lines[i].kind = "more" => n > PreviewLimit

\* ten adopters: eight bullets and a marker for two more
C5_Witness ==
    /\ Built /\ Passing # <<>>
    /\ Len(Passing[1].adopted_by) = 10
    /\ LET lines == NodeOf(graph, Passing[1].name).title.lines
       IN /\ Len(lines) = 9
          /\ lines[9] = MoreLine(2)
          /\ \A i \in 1..8 : lines[i] = ItemLine(Passing[1].adopted_by[i])

====
